---- MODULE Spec2Model ----
(***************************************************************************)
(* Model of the 2D reflecting-world engine (cpp/src/reflecting_world.cpp,  *)
(* cpp/include/sim/reflecting_world.hpp, cpp/include/sim/vec2.hpp).        *)
(*                                                                         *)
(* Numbers.  The program computes in IEEE doubles; the tolerances it       *)
(* compares against are EPS_POS = EPS_DIR = 1e-12 and the tie tolerance    *)
(* 1e-15.  A double is modelled as the exact value (n0 + n1*eps)/d, written*)
(* <<n0, n1, d>>, with integers n0, n1, d, d > 0, and eps = 1e-12 taken    *)
(* as a positive quantity smaller than every positive rational that        *)
(* occurs (first-order arithmetic: eps*eps is dropped, as it is below the  *)
(* resolution of a double next to values of order 1).  <<1, 0, 0>> and     *)
(* <<-1, 0, 0>> are +infinity and -infinity.  Rounding of the last bit is  *)
(* not modelled.                                                            *)
(***************************************************************************)
EXTENDS Integers, Sequences, FiniteSets, TLC

\* walls:   world.walls, the sequence of wall segments
\* calls:   the advance_with_reflections calls, one record per caller
\* ndebug:  the build defines NDEBUG (assert is compiled out)
\* aborted: an assertion failed and ended the process
\* last:    the last builder call made, for the properties
\* ncalls:  the number of builder calls made
\* steps:   the number of steps of its call each caller has executed
\* refl:    a vector, a unit normal and the vector's image under repeated
\*          calls of reflect_across_unit_normal
\* sim:     a Simulation object (cfg_, pos_, hist_, step_type_, the
\*          parameters, rngs_, the callback), the position of its run(),
\*          the numbers of run() and setter calls made, whether a step has
\*          been taken and the positions after every step since frame 0
VARIABLES walls, calls, ndebug, aborted, last, ncalls, steps, refl, sim

vars == <<walls, calls, ndebug, aborted, last, ncalls, steps, refl, sim>>

----------------------------------------------------------------------------
(* Arithmetic on the numbers <<n0, n1, d>>.                                *)

AbsI(i) == IF i < 0 THEN -i ELSE i

SgnI(i) == IF i < 0 THEN -1 ELSE IF i > 0 THEN 1 ELSE 0

RECURSIVE Gcd(_, _)
Gcd(a, b) == IF b = 0 THEN a ELSE Gcd(b, a % b)

\* the canonical form of (n0 + n1*eps)/d, d # 0
Num(n0, n1, d) ==
    LET g == Gcd(Gcd(AbsI(n0), AbsI(n1)), AbsI(d))
        s == IF d < 0 THEN -g ELSE g
    IN  <<n0 \div s, n1 \div s, d \div s>>

Rat(n, d) == Num(n, 0, d)

FromInt(n) == <<n, 0, 1>>

Zero == <<0, 0, 1>>

One == <<1, 0, 1>>

Two == <<2, 0, 1>>

\* std::numeric_limits<double>::infinity()
Infinity == <<1, 0, 0>>

IsFinite(x) == x[3] # 0

Neg(x) == <<-x[1], -x[2], x[3]>>

Add(x, y) ==
    IF x[3] = 0 THEN x
    ELSE IF y[3] = 0 THEN y
    ELSE LET g  == Gcd(x[3], y[3])
             fx == y[3] \div g
             fy == x[3] \div g
         IN  Num(x[1] * fx + y[1] * fy, x[2] * fx + y[2] * fy, x[3] * fx)

Sub(x, y) == Add(x, Neg(y))

\* both operands finite; the eps*eps term is dropped
Mul(x, y) ==
    LET g1 == Gcd(Gcd(AbsI(x[1]), AbsI(x[2])), y[3])
        g2 == Gcd(Gcd(AbsI(y[1]), AbsI(y[2])), x[3])
        a0 == x[1] \div g1
        a1 == x[2] \div g1
        b0 == y[1] \div g2
        b1 == y[2] \div g2
    IN  Num(a0 * b0, a0 * b1 + a1 * b0, (x[3] \div g2) * (y[3] \div g1))

\* x / y for finite x and y # 0.  A denominator of order 1 gives the first-
\* order quotient; a denominator of order eps gives an infinite quotient
\* when x is of order 1 and the quotient of the eps-coefficients otherwise.
Div(x, y) ==
    IF y[1] # 0
    THEN Mul(x, Num(y[1] * y[3], -(y[2] * y[3]), y[1] * y[1]))
    ELSE IF x[1] # 0
         THEN <<SgnI(x[1]) * SgnI(y[2]), 0, 0>>
         ELSE Num(x[2] * y[3], 0, y[2] * x[3])

Lt(x, y) ==
    \/ x[1] * y[3] < y[1] * x[3]
    \/ /\ x[1] * y[3] = y[1] * x[3]
       /\ x[2] * y[3] < y[2] * x[3]

Le(x, y) == ~Lt(y, x)

\* std::abs
Fabs(x) == IF x[1] < 0 \/ (x[1] = 0 /\ x[2] < 0) THEN Neg(x) ELSE x

\* the integer k with k*k = a*a + b*b (the inputs keep square roots rational)
Hyp(a, b) == CHOOSE k \in 0..(AbsI(a) + AbsI(b)) : k * k = a * a + b * b

----------------------------------------------------------------------------
(* Tolerances and the safety cap (reflecting_world.hpp).                   *)

\* 1e-12
EPS_POS == <<0, 1, 1>>

\* 1e-12
EPS_DIR == <<0, 1, 1>>

\* the literal 1e-15 of the tie test
TIE_TOL == <<0, 1, 1000>>

MAX_REFLECTIONS == 64

----------------------------------------------------------------------------
(* Vec2 (vec2.hpp) and the file-local helpers of reflecting_world.cpp.     *)

Vec2(X, Y) == [x |-> X, y |-> Y]

VZero == Vec2(Zero, Zero)

VAdd(a, b) == Vec2(Add(a.x, b.x), Add(a.y, b.y))

VSub(a, b) == Vec2(Sub(a.x, b.x), Sub(a.y, b.y))

VScale(v, s) == Vec2(Mul(v.x, s), Mul(v.y, s))

dot(a, b) == Add(Mul(a.x, b.x), Mul(a.y, b.y))

cross2(a, b) == Sub(Mul(a.x, b.y), Mul(a.y, b.x))

\* sqrt(v.x*v.x + v.y*v.y): of order eps when both components are, and
\* r + ((v0 . v1)/r)*eps for a vector v0 + v1*eps with |v0| = r > 0
norm(v) ==
    LET xd == v.x[3]
        yd == v.y[3]
    IN  IF v.x[1] = 0 /\ v.y[1] = 0
        THEN Num(0, Hyp(v.x[2] * yd, v.y[2] * xd), xd * yd)
        ELSE LET r == Rat(Hyp(v.x[1] * yd, v.y[1] * xd), xd * yd)
                 e == Div(Add(Mul(Rat(v.x[1], xd), Rat(v.x[2], xd)),
                              Mul(Rat(v.y[1], yd), Rat(v.y[2], yd))), r)
             IN  Add(r, Num(0, e[1], e[3]))

\* n = norm(v) is passed in: {0,0} if n <= EPS_DIR, else v / n
Unit(v, n) == IF Le(n, EPS_DIR) THEN VZero ELSE Vec2(Div(v.x, n), Div(v.y, n))

normalize(v) == Unit(v, norm(v))

\* the projection v - (v . n_hat) n_hat
project_along_wall(v, n_hat) == VSub(v, VScale(n_hat, dot(v, n_hat)))

\* the point reflection -v
reflect_through_origin(v, n_hat) == VSub(VZero, v)

reflect_across_unit_normal(v, n_hat) ==
    VSub(v, VScale(n_hat, Mul(Two, dot(v, n_hat))))

\* std::abs(v.x) <= EPS_DIR && std::abs(v.y) <= EPS_DIR
NoMotion(v) == Le(Fabs(v.x), EPS_DIR) /\ Le(Fabs(v.y), EPS_DIR)

----------------------------------------------------------------------------
(* WallSegment and the builders of ReflectingWorld.  A builder returns the *)
(* new wall sequence and whether it ran to its end (ok) or an assertion    *)
(* stopped it; nd is NDEBUG (assert compiled out).                         *)

WallSegment(a, b, n_unit, id) == [p0 |-> a, p1 |-> b, n_hat |-> n_unit, id |-> id]

Built(ws, ok) == [walls |-> ws, ok |-> ok]

\* the wall of fromSegmentAutoNormal from the unit tangent t_hat: the
\* left-hand normal (-t_hat.y, t_hat.x), flipped when inward
AutoNormalWall(a, b, t_hat, inward, id) ==
    [wall |-> WallSegment(a, b,
                          IF inward THEN Vec2(t_hat.y, Neg(t_hat.x))
                                    ELSE Vec2(Neg(t_hat.y), t_hat.x), id),
     asserts |-> t_hat # VZero]

\* t_hat = normalize(b - a); assert(t_hat != {0,0})
fromSegmentAutoNormal(a, b, inward, id) ==
    AutoNormalWall(a, b, normalize(VSub(b, a)), inward, id)

\* std::abs(ab.x) <= EPS_DIR && std::abs(ab.y) <= EPS_DIR
NearlyZero(ab) == Le(Fabs(ab.x), EPS_DIR) /\ Le(Fabs(ab.y), EPS_DIR)

\* add_segment once n_hat = normalize(n_unit) is computed
StoreSegment(ws, a, b, n_hat, id, nd) ==
    IF ~nd /\ NearlyZero(VSub(b, a)) THEN Built(ws, FALSE)
    ELSE IF ~nd /\ n_hat = VZero THEN Built(ws, FALSE)
    ELSE Built(Append(ws, WallSegment(a, b, n_hat, id)), TRUE)

add_segment(ws, a, b, n_unit, id, nd) ==
    StoreSegment(ws, a, b, normalize(n_unit), id, nd)

\* walls.push_back(fromSegmentAutoNormal(...)), r the value built
PushAuto(ws, r, nd) ==
    IF ~nd /\ ~r.asserts THEN Built(ws, FALSE) ELSE Built(Append(ws, r.wall), TRUE)

add_segment_auto(ws, a, b, inward, id, nd) ==
    PushAuto(ws, fromSegmentAutoNormal(a, b, inward, id), nd)

\* the next add_segment of a builder that makes several: not reached when
\* an assertion stopped the one before
ThenSegment(r, a, b, n_unit, id, nd) ==
    IF r.ok THEN add_segment(r.walls, a, b, n_unit, id, nd) ELSE r

\* bottom, right, top, left
add_inward_box(ws, xmin, xmax, ymin, ymax, base_id, nd) ==
    IF ~nd /\ ~(Lt(xmin, xmax) /\ Lt(ymin, ymax)) THEN Built(ws, FALSE)
    ELSE ThenSegment(
           ThenSegment(
             ThenSegment(
               add_segment(ws, Vec2(xmin, ymin), Vec2(xmax, ymin),
                           Vec2(Zero, One), base_id + 0, nd),
               Vec2(xmax, ymin), Vec2(xmax, ymax), Vec2(Neg(One), Zero), base_id + 1, nd),
             Vec2(xmax, ymax), Vec2(xmin, ymax), Vec2(Zero, Neg(One)), base_id + 2, nd),
           Vec2(xmin, ymax), Vec2(xmin, ymin), Vec2(One, Zero), base_id + 3, nd)

\* a strip whose endpoints a and b are exchanged
StripSegmentReversed(ws, x0, t_hat, h, n, id, nd) ==
    add_segment(ws,
                Vec2(Add(x0.x, Mul(h, t_hat.x)), Add(x0.y, Mul(h, t_hat.y))),
                Vec2(Sub(x0.x, Mul(h, t_hat.x)), Sub(x0.y, Mul(h, t_hat.y))),
                n, id, nd)

\* the segment of add_half_plane_strip: centre x0, unit tangent t_hat, half
\* length h = 0.5 * span
StripSegment(ws, x0, t_hat, h, n, id, nd) ==
    add_segment(ws,
                Vec2(Sub(x0.x, Mul(h, t_hat.x)), Sub(x0.y, Mul(h, t_hat.y))),
                Vec2(Add(x0.x, Mul(h, t_hat.x)), Add(x0.y, Mul(h, t_hat.y))),
                n, id, nd)

\* add_half_plane_strip once n = normalize(n_unit) is computed
StripOf(ws, n, c, span, id, nd) ==
    IF ~nd /\ n = VZero THEN Built(ws, FALSE)
    ELSE StripSegment(ws, Vec2(Mul(n.x, c), Mul(n.y, c)), Vec2(Neg(n.y), n.x),
                      Mul(Rat(1, 2), span), n, id, nd)

add_half_plane_strip(ws, n_unit, c, span, id, nd) ==
    StripOf(ws, normalize(n_unit), c, span, id, nd)

----------------------------------------------------------------------------
(* advance_with_reflections: the scan of one loop iteration.               *)

\* best_t, best_idx, hit_id, hit_n before the scan
NoHit == [best_t |-> Infinity, best_idx |-> -1, hit_id |-> -1, hit_n |-> VZero]

\* std::abs(denom) <= EPS_DIR
NearParallel(denom) == Le(Fabs(denom), EPS_DIR)

\* a step test that looks two steps ahead
OutOfStepTwoSteps(t) == Le(t, EPS_POS) \/ Lt(Add(Two, EPS_POS), t)

\* a step test that accepts a hit at t = 0
OutOfStepBelowZero(t) == Lt(t, Zero) \/ Lt(Add(One, EPS_POS), t)

\* t <= EPS_POS || t > 1.0 + EPS_POS
OutOfStep(t) == Le(t, EPS_POS) \/ Lt(Add(One, EPS_POS), t)

\* u < -EPS_POS || u > 1.0 + EPS_POS
OffSegment(u) == Lt(u, Neg(EPS_POS)) \/ Lt(Add(One, EPS_POS), u)

\* the two range tests on the solved t and u
InRange(t, u) ==
    IF OutOfStep(t) THEN [valid |-> FALSE, t |-> t]
    ELSE IF OffSegment(u) THEN [valid |-> FALSE, t |-> t]
    ELSE [valid |-> TRUE, t |-> t]

\* the tests of one wall given denom = cross2(v, s), nt = cross2(ap, s),
\* nu = cross2(ap, v)
Solve(denom, nt, nu) ==
    IF NearParallel(denom) THEN [valid |-> FALSE, t |-> Zero]
    ELSE InRange(Div(nt, denom), Div(nu, denom))

\* s = b - a and ap = a - p
CandidateAt(v, s, ap) == Solve(cross2(v, s), cross2(ap, s), cross2(ap, v))

\* the intersection of the ray p + t v with wall w: does it pass the tests
\* of the scan, and at which t
Candidate(p, v, w) == CandidateAt(v, VSub(w.p1, w.p0), VSub(w.p0, p))

\* a scan that keeps the first valid wall in insertion order
EarlierFirstSeen(t, w, i, best) == best.best_idx < 0

\* the test that replaces the best hit so far by wall w at index i (0-based)
Earlier(t, w, i, best) ==
    \/ Lt(t, Sub(best.best_t, TIE_TOL))
    \/ /\ Le(Fabs(Sub(t, best.best_t)), TIE_TOL)
       /\ \/ w.id < best.hit_id
          \/ w.id = best.hit_id /\ i < best.best_idx

\* the body of the for loop for wall w at index i with candidate c
Keep(best, c, w, i) ==
    IF c.valid /\ Earlier(c.t, w, i, best)
    THEN [best_t |-> c.t, best_idx |-> i, hit_id |-> w.id, hit_n |-> w.n_hat]
    ELSE best

\* the for loop over world.walls from index i (1-based here) on
RECURSIVE ScanFrom(_, _, _, _, _)
ScanFrom(p, v, ws, i, best) ==
    IF i > Len(ws) THEN best
    ELSE ScanFrom(p, v, ws, i + 1, Keep(best, Candidate(p, v, ws[i]), ws[i], i - 1))

Scan(p, v, ws) == ScanFrom(p, v, ws, 1, NoHit)

----------------------------------------------------------------------------
(* advance_with_reflections(Vec2& x, Vec2 d, const ReflectingWorld& world) *)
(* as steps of one call.  A call record holds the caller's x and d, the    *)
(* locals p, v, bounces, hit_n and the position in the code (pc); for the  *)
(* properties it also keeps the inputs x_in and d_in, the last contact     *)
(* point, the number of scans made and whether some scan saw two valid     *)
(* candidates within the tie tolerance.                                     *)

\* a loop without the cap
LoopUncapped(bounces) == TRUE

\* a loop that tests the cap one bounce late
LoopOneMore(bounces) == bounces <= MAX_REFLECTIONS

\* while (bounces < MAX_REFLECTIONS)
LoopCond(bounces) == bounces < MAX_REFLECTIONS

\* the caller holds position x and displacement d and has not called yet
NewCall(x, d) ==
    [pc |-> "ready", x |-> x, d |-> d, p |-> VZero, v |-> VZero, bounces |-> 0,
     hit_n |-> VZero, x_in |-> x, d_in |-> d, contact |-> VZero, scans |-> 0,
     tied |-> FALSE]

\* the indices (1-based) of the walls that pass the tests of the scan
ValidWalls(p, v, ws) == {i \in 1..Len(ws) : Candidate(p, v, ws[i]).valid}

\* two valid candidates of this scan lie within the tie tolerance
TieAt(p, v, ws) ==
    \E i \in ValidWalls(p, v, ws) :
        \E j \in (i + 1)..Len(ws) :
            /\ Candidate(p, v, ws[j]).valid
            /\ Le(Fabs(Sub(Candidate(p, v, ws[i]).t, Candidate(p, v, ws[j]).t)), TIE_TOL)

\* a call without the early exit of lines 235-238
BeginCallNoExit(call) == [call EXCEPT !.pc = "loop", !.p = call.x, !.v = call.d]

\* lines 231-241: p = x, v = d, the early exit, bounces = 0, the first loop test
BeginCall(call) ==
    IF NoMotion(call.d) \/ ~LoopCond(0)
    THEN [call EXCEPT !.pc = "done", !.p = call.x, !.v = call.d, !.x = call.x]
    ELSE [call EXCEPT !.pc = "loop", !.p = call.x, !.v = call.d]

\* lines 285-288: no wall hit, p += v, break, and the write-back x = p
Finish(call, p1, tie) ==
    [call EXCEPT !.pc = "done", !.p = p1, !.x = p1, !.scans = @ + 1, !.tied = tie]

\* lines 306-315: ++bounces, the early exit, the loop test and, when the
\* loop ends, the write-back x = p
Bounced(call, hit_n, contact, p2, v2, stop, tie) ==
    [call EXCEPT !.pc = IF stop THEN "done" ELSE "loop",
                 !.p = p2, !.v = v2, !.bounces = @ + 1,
                 !.x = IF stop THEN p2 ELSE @,
                 !.hit_n = hit_n, !.contact = contact,
                 !.scans = @ + 1, !.tied = tie]

\* a hit step that leaves the position at the contact point
ReflectedNoNudge(call, hit_n, contact, v2, tie) ==
    Bounced(call, hit_n, contact, contact, v2,
            NoMotion(v2) \/ ~LoopCond(call.bounces + 1), tie)

\* lines 298-304 from the contact point: the nudge and the reflected remainder
Reflected(call, hit_n, contact, v2, tie) ==
    Bounced(call, hit_n, contact, VAdd(contact, VScale(hit_n, EPS_POS)), v2,
            NoMotion(v2) \/ ~LoopCond(call.bounces + 1), tie)

\* lines 295-304: move to the contact point, nudge, reflect the remainder
Hit(call, best, tie) ==
    Reflected(call, best.hit_n, VAdd(call.p, VScale(call.v, best.best_t)),
              reflect_across_unit_normal(VScale(call.v, Sub(One, best.best_t)),
                                         best.hit_n),
              tie)

\* lines 285-312 after the scan returned best
Process(call, best, tie) ==
    IF best.best_idx < 0 \/ ~IsFinite(best.best_t)
    THEN Finish(call, VAdd(call.p, call.v), tie)
    ELSE Hit(call, best, tie)

\* a loop body that keeps the remaining displacement in the caller's d
IterateCallWritesD(call, ws) ==
    [Process(call, Scan(call.p, call.v, ws), call.tied)
        EXCEPT !.d = Process(call, Scan(call.p, call.v, ws), call.tied).v]

\* lines 242-315: one pass of the loop body, the loop test that follows it
\* and, when the loop ends, the write-back
IterateCall(call, ws) ==
    Process(call, Scan(call.p, call.v, ws), call.tied \/ TieAt(call.p, call.v, ws))

\* calls whose locals p and v are one storage shared by all calls
StepCallsShared(cs, c, next) ==
    [k \in DOMAIN cs |->
        IF k = c THEN next ELSE [cs[k] EXCEPT !.p = next.p, !.v = next.v]]

\* a step of call c changes the record of call c only: p, v, bounces are
\* locals of the call, d is passed by value and the world is a const reference
StepCalls(cs, c, next) == [cs EXCEPT ![c] = next]

\* the whole call as a function of (x, d, world)
RECURSIVE RunToEnd(_, _)
RunToEnd(call, ws) ==
    IF call.pc = "done" THEN call
    ELSE IF call.pc = "ready" THEN RunToEnd(BeginCall(call), ws)
    ELSE RunToEnd(IterateCall(call, ws), ws)

AdvanceResult(x, d, ws) == RunToEnd(NewCall(x, d), ws).x

----------------------------------------------------------------------------
(* Builder calls as data, and the scenes and caller inputs explored.       *)

Pt(x, y) == Vec2(FromInt(x), FromInt(y))

Half == Rat(1, 2)

\* 1.8e-15 and 3.6e-15 below y = 0: three floors whose hit times lie
\* 0.9e-15 apart for a displacement that goes down by 2
Drop1 == <<0, -9, 5000>>

Drop2 == <<0, -9, 2500>>

SegCall(a, b, n, id) == [op |-> "add_segment", a |-> a, b |-> b, n |-> n, id |-> id]

AutoCall(a, b, inward, id) ==
    [op |-> "add_segment_auto", a |-> a, b |-> b, inward |-> inward, id |-> id]

BoxCall(xmin, xmax, ymin, ymax, base_id) ==
    [op |-> "add_inward_box", xmin |-> xmin, xmax |-> xmax,
     ymin |-> ymin, ymax |-> ymax, id |-> base_id]

StripCall(n, c, span, id) ==
    [op |-> "add_half_plane_strip", n |-> n, c |-> c, span |-> span, id |-> id]

NoCall == [op |-> "none"]

\* one builder call on the wall sequence ws
Apply(ws, c, nd) ==
    CASE c.op = "add_segment" -> add_segment(ws, c.a, c.b, c.n, c.id, nd)
      [] c.op = "add_segment_auto" -> add_segment_auto(ws, c.a, c.b, c.inward, c.id, nd)
      [] c.op = "add_inward_box" ->
             add_inward_box(ws, c.xmin, c.xmax, c.ymin, c.ymax, c.id, nd)
      [] c.op = "add_half_plane_strip" ->
             add_half_plane_strip(ws, c.n, c.c, c.span, c.id, nd)

\* the next builder call of a script: not reached after a failed assertion
ThenApply(r, c, nd) == IF r.ok THEN Apply(r.walls, c, nd) ELSE r

\* a sequence of builder calls, made in order
RECURSIVE BuildFrom(_, _, _)
BuildFrom(r, script, nd) ==
    IF script = <<>> THEN r
    ELSE BuildFrom(ThenApply(r, Head(script), nd), Tail(script), nd)

Build(script, nd) == BuildFrom(Built(<<>>, TRUE), script, nd)

\* the unit box of the tests, default base_id
UnitBox == BoxCall(Zero, One, Zero, One, 100)

\* the floor of the tests: y = 0, normal up, default id
Floor == SegCall(Pt(-10, 0), Pt(10, 0), Pt(0, 1), -1)

\* a wall on x = 1 with the auto normal (-1, 0) and the default id
RightWall == AutoCall(Pt(1, -10), Pt(1, 10), FALSE, -1)

\* the three stacked floors, ids falling with depth
Floor3 == SegCall(Pt(-10, 0), Pt(10, 0), Pt(0, 1), 3)

Floor2 == AutoCall(Vec2(FromInt(-10), Drop1), Vec2(FromInt(10), Drop1), FALSE, 2)

Floor1 == StripCall(Pt(0, 2), Drop2, FromInt(20), 1)

Stack == {Floor3, Floor2, Floor1}

Scripts ==
    {<<>>, <<UnitBox>>, <<Floor>>, <<Floor, RightWall>>, <<RightWall, Floor>>}
    \cup {<<a, b>> : a \in Stack, b \in Stack}
    \cup {s \in [1..3 -> Stack] : \A i, j \in 1..3 : i # j => s[i] # s[j]}

\* the last start lies 2e-13 above y = 0
Starts ==
    {Vec2(Half, Half), Pt(0, 1), Pt(0, 0), Vec2(One, Half), Vec2(Zero, <<0, 1, 5>>)}

Disps ==
    {Pt(1, -1), Pt(5, 0), Pt(70, 0), Pt(1, 0), Pt(0, -2), Pt(1, -2), Pt(0, 1),
     Pt(0, -1), Pt(0, 0), Vec2(FromInt(10), <<0, -1, 10>>), Vec2(<<0, 1, 2>>, Zero),
     Vec2(Zero, <<0, 1, 2>>), Vec2(One, <<0, -1, 10>>)}

\* the worlds and inputs of the concurrent callers
SharedScripts == {<<UnitBox>>, <<Floor>>, <<Floor, RightWall>>}

Starts2 == {Pt(0, 1)}

Disps2 == {Pt(0, -2), Pt(5, 0)}

NumCallers == 2

Callers == 1..NumCallers

\* a thread that makes no call
Idle == [NewCall(VZero, VZero) EXCEPT !.pc = "idle"]

\* no call of reflect_across_unit_normal is under way
NoReflection == [v |-> VZero, n_hat |-> VZero, r |-> VZero, applied |-> 0]

\* no Simulation has been constructed
NoSimulation == [pc |-> "none"]

----------------------------------------------------------------------------
(* The advance specification: a world built by a script of builder calls,  *)
(* then one caller calling advance_with_reflections on it.                 *)

LastOf(s) == IF s = <<>> THEN NoCall ELSE s[Len(s)]

World(scripts) ==
    /\ ndebug \in BOOLEAN
    /\ aborted = FALSE
    /\ \E s \in scripts :
         /\ Build(s, ndebug).ok
         /\ walls = Build(s, ndebug).walls
         /\ last = LastOf(s)
         /\ ncalls = Len(s)
    /\ steps = [c \in Callers |-> 0]
    /\ refl = NoReflection
    /\ sim = NoSimulation

Init ==
    /\ World(Scripts)
    /\ \E x \in Starts, d \in Disps :
         calls = [c \in Callers |-> IF c = 1 THEN NewCall(x, d) ELSE Idle]

Begin(c) ==
    /\ calls[c].pc = "ready"
    /\ calls' = StepCalls(calls, c, BeginCall(calls[c]))
    /\ steps' = [steps EXCEPT ![c] = @ + 1]
    /\ UNCHANGED <<walls, ndebug, aborted, last, ncalls, refl, sim>>

Iterate(c) ==
    /\ calls[c].pc = "loop"
    /\ calls' = StepCalls(calls, c, IterateCall(calls[c], walls))
    /\ steps' = [steps EXCEPT ![c] = @ + 1]
    /\ UNCHANGED <<walls, ndebug, aborted, last, ncalls, refl, sim>>

Next == \E c \in Callers : Begin(c) \/ Iterate(c)

Spec == Init /\ [][Next]_vars

(* The concurrent specification: every caller, with its own position and   *)
(* displacement, calls advance_with_reflections on the one world; the      *)
(* steps of the calls interleave.                                          *)

InitThreads ==
    /\ World(SharedScripts)
    /\ calls \in [Callers -> {NewCall(x, d) : x \in Starts2, d \in Disps2}]

SpecThreads == InitThreads /\ [][Next]_vars

\* caller c is inside a call and takes its next step
Running(c) ==
    /\ calls[c].pc \in {"ready", "loop"}
    /\ steps' = [steps EXCEPT ![c] = @ + 1]

\* the scheduler runs every thread that is inside a call: under Spec a step
\* that advances steps[c] is the Begin(c) or Iterate(c) step of that thread
FairSpec == Spec /\ \A c \in Callers : WF_steps(Running(c))

----------------------------------------------------------------------------
(* The builder specification: builder calls on an empty world, in a build  *)
(* with or without NDEBUG.  A failed assertion ends the process.           *)

MaxCalls == 2

Origin == Pt(0, 0)

\* 0.5e-12, a side shorter than the degenerate-segment tolerance
Tiny == <<0, 1, 2>>

\* (0.72e-12, 0.96e-12): each component is below the tolerance, the distance
\* from the origin, 1.2e-12, is above it
TinyEnd == Vec2(<<0, 18, 25>>, <<0, 24, 25>>)

SegInputs ==
    {Floor,
     SegCall(Origin, TinyEnd, Pt(0, 1), 6),
     SegCall(Origin, Origin, Pt(0, 1), 7),
     SegCall(Pt(-10, 0), Pt(10, 0), Origin, 8)}

AutoInputs ==
    {RightWall,
     AutoCall(Origin, TinyEnd, FALSE, 6),
     AutoCall(Pt(1, 1), Pt(1, 1), FALSE, 9)}

BoxInputs ==
    {UnitBox,
     BoxCall(One, One, Zero, One, 20),
     BoxCall(Zero, One, One, Zero, 30),
     BoxCall(Zero, One, Zero, Tiny, 40)}

StripInputs ==
    {Floor1,
     StripCall(Origin, Zero, FromInt(20), 5),
     \* the line 0.6 x + 0.8 y = 5, given by a normal of length 5
     StripCall(Pt(3, 4), FromInt(5), FromInt(10), 11),
     \* a normal (0.5e-12, 0)
     StripCall(Vec2(Tiny, Zero), Zero, FromInt(20), 12),
     \* a span of 1.2e-12 along the tangent (-0.8, 0.6)
     StripCall(Pt(3, 4), Zero, <<0, 6, 5>>, 13),
     \* a negative span
     StripCall(Pt(0, 1), Zero, FromInt(-20), 14)}

InitBuild ==
    /\ ndebug \in BOOLEAN
    /\ aborted = FALSE
    /\ walls = <<>>
    /\ last = NoCall
    /\ ncalls = 0
    /\ calls = <<>>
    /\ steps = <<>>
    /\ refl = NoReflection
    /\ sim = NoSimulation

\* the process is alive and makes one more builder call
CanAdd == ~aborted /\ ncalls < MaxCalls

AddSegment ==
    \E c \in SegInputs :
        /\ CanAdd
        /\ walls' = add_segment(walls, c.a, c.b, c.n, c.id, ndebug).walls
        /\ aborted' = ~add_segment(walls, c.a, c.b, c.n, c.id, ndebug).ok
        /\ last' = c
        /\ ncalls' = ncalls + 1
        /\ UNCHANGED <<calls, ndebug, steps, refl, sim>>

AddSegmentAuto ==
    \E c \in AutoInputs :
        /\ CanAdd
        /\ walls' = add_segment_auto(walls, c.a, c.b, c.inward, c.id, ndebug).walls
        /\ aborted' = ~add_segment_auto(walls, c.a, c.b, c.inward, c.id, ndebug).ok
        /\ last' = c
        /\ ncalls' = ncalls + 1
        /\ UNCHANGED <<calls, ndebug, steps, refl, sim>>

AddInwardBox ==
    \E c \in BoxInputs :
        /\ CanAdd
        /\ walls' = add_inward_box(walls, c.xmin, c.xmax, c.ymin, c.ymax, c.id, ndebug).walls
        /\ aborted' = ~add_inward_box(walls, c.xmin, c.xmax, c.ymin, c.ymax, c.id, ndebug).ok
        /\ last' = c
        /\ ncalls' = ncalls + 1
        /\ UNCHANGED <<calls, ndebug, steps, refl, sim>>

AddHalfPlaneStrip ==
    \E c \in StripInputs :
        /\ CanAdd
        /\ walls' = add_half_plane_strip(walls, c.n, c.c, c.span, c.id, ndebug).walls
        /\ aborted' = ~add_half_plane_strip(walls, c.n, c.c, c.span, c.id, ndebug).ok
        /\ last' = c
        /\ ncalls' = ncalls + 1
        /\ UNCHANGED <<calls, ndebug, steps, refl, sim>>

NextBuild == AddSegment \/ AddSegmentAuto \/ AddInwardBox \/ AddHalfPlaneStrip

SpecBuild == InitBuild /\ [][NextBuild]_vars

----------------------------------------------------------------------------
(* The reflection specification: reflect_across_unit_normal applied, once  *)
(* and again, to a vector and a unit normal.                               *)

MaxReflections == 2

\* the vectors of tests/test_vec2.cpp and some more
Vectors ==
    {Vec2(<<6, 0, 5>>, <<-17, 0, 5>>), Vec2(<<3, 0, 10>>, <<-9, 0, 10>>), Pt(2, 5),
     Pt(0, 0), Pt(1, 0), Pt(0, -2), Pt(-3, 4), Vec2(<<0, 1, 2>>, One),
     Vec2(Half, <<0, -3, 1>>)}

\* unit normals: the axes and the 3-4-5 directions
UnitNormals ==
    {Pt(0, 1), Pt(1, 0), Pt(0, -1), Pt(-1, 0),
     Vec2(<<3, 0, 5>>, <<4, 0, 5>>), Vec2(<<-4, 0, 5>>, <<3, 0, 5>>)}

InitReflect ==
    /\ ndebug = FALSE
    /\ aborted = FALSE
    /\ walls = <<>>
    /\ last = NoCall
    /\ ncalls = 0
    /\ calls = <<>>
    /\ steps = <<>>
    /\ sim = NoSimulation
    /\ \E v \in Vectors, n \in UnitNormals :
         refl = [v |-> v, n_hat |-> n, r |-> v, applied |-> 0]

\* r = reflect_across_unit_normal(r, n_hat)
Reflect ==
    /\ refl.applied < MaxReflections
    /\ refl' = [refl EXCEPT !.r = reflect_across_unit_normal(refl.r, refl.n_hat),
                            !.applied = @ + 1]
    /\ UNCHANGED <<walls, calls, ndebug, aborted, last, ncalls, steps, sim>>

NextReflect == Reflect

SpecReflect == InitReflect /\ [][NextReflect]_vars

----------------------------------------------------------------------------
(* The Simulation object (cpp/src/simulation.cpp, rng.cpp,                 *)
(* step_generators.cpp).  Particle i of the code is particle i + 1 here.   *)
(* An unsigned 32-bit value is the pair <<hi, lo>> of its 16-bit halves,   *)
(* a std::size_t the four 16-bit limbs <<l3, l2, l1, l0>>.                 *)

Limb == 65536

U32(hi, lo) == <<hi, lo>>

SizeT(l3, l2, l1, l0) == <<l3, l2, l1, l0>>

\* a small index as a std::size_t
Index(i) == SizeT(0, 0, 0, i)

\* a sum of two unsigned ints without the wraparound
AddNoWrap(a, b) ==
    U32(a[1] + b[1] + ((a[2] + b[2]) \div Limb), (a[2] + b[2]) % Limb)

\* unsigned int + unsigned int: the sum modulo 2^32
AddU32(a, b) ==
    U32((a[1] + b[1] + ((a[2] + b[2]) \div Limb)) % Limb, (a[2] + b[2]) % Limb)

\* static_cast<unsigned int>(i) of a std::size_t: the low 32 bits
CastU32(i) == U32(i[3], i[4])

\* static_cast<unsigned int>(cfg_.base_seed + static_cast<unsigned int>(i))
SeedOf(base_seed, i) == AddU32(base_seed, CastU32(i))

\* RNG(seed): a generator is its seed and the number of draws made
RNG(seed) == [seed |-> seed, draws |-> 0]

\* the samples a generator yields, in place of mt19937 and
\* normal_distribution: a fixed sequence for every seed
Samples == <<FromInt(-1), Half, Zero, One, Rat(-1, 2)>>

\* the value that the next rng.gauss() returns
gauss(rng) == Samples[((rng.seed[1] + rng.seed[2] + rng.draws) % Len(Samples)) + 1]

\* the generator after n draws
Drawn(rng, n) == [rng EXCEPT !.draws = @ + n]

\* std::sqrt of a rational with a rational root
Sqrt(x) == Rat(CHOOSE k \in 0..(x[1] * x[3]) : k * k = x[1] * x[3], x[3])

BrownianParams(dt, D, mu_x, mu_y) == [dt |-> dt, D |-> D, mu_x |-> mu_x, mu_y |-> mu_y]

\* sigma = sqrt(2 D dt), dx = mu_x dt + sigma gauss(), dy = mu_y dt + sigma gauss()
brownian_at(p, sigma, g1, g2) ==
    Vec2(Add(Mul(p.mu_x, p.dt), Mul(sigma, g1)), Add(Mul(p.mu_y, p.dt), Mul(sigma, g2)))

brownian_step(p, rng) ==
    brownian_at(p, Sqrt(Mul(Two, Mul(p.D, p.dt))), gauss(rng), gauss(Drawn(rng, 1)))

SpecifiedStepParams(dt, D, diff_scale, k) ==
    [dt |-> dt, D |-> D, diff_scale |-> diff_scale, k |-> k]

\* SpecifiedStepParams{}
DefaultSpecified == SpecifiedStepParams(One, One, One, 1)

\* the private specified step: a displacement determined by the parameters,
\* the step index, the position and two draws of the particle's generator
specified_step(p, step_index, pos, rng) ==
    VScale(Vec2(gauss(rng), gauss(Drawn(rng, 1))),
           Mul(IF Lt(pos.x, Zero) THEN Half ELSE One,
               Rat(p.k + (step_index % 2), 4)))

MaxSteps == 3

MaxRuns == 2

\* cfg.n_particles
ParticleCounts == {1, 2}

\* cfg.store_every
Strides == {1, 2, 3}

\* the worlds of the tests: no boundaries, and the unit box
SimWorlds == {<<>>, <<UnitBox>>}

\* the default base_seed 5489u
DefaultSeed == U32(0, 5489)

\* Brownian parameters with sigma = 1 and no drift
UnitBrownian == BrownianParams(One, Half, Zero, Zero)

\* a SimulationConfig with the given fields and deterministic seeding
SimulationConfig(n, steps_, record, every) ==
    [n_particles |-> n, n_steps |-> steps_, record_history |-> record,
     store_every |-> every, base_seed |-> DefaultSeed, deterministic |-> TRUE,
     brownian |-> UnitBrownian]

Configs ==
    {SimulationConfig(n, m, r, e) :
        n \in ParticleCounts, m \in 0..MaxSteps, r \in BOOLEAN, e \in Strides}

\* the callbacks: the one of the tests, and one whose step depends on the
\* particle and on the step index
Callbacks == {"kStepRight", "kZigzag"}

\* specified_cb_(i, k, pos_[i], rngs_[i])
specified_cb(cb, i, k, pos) ==
    IF cb = "kStepRight" THEN Pt(1, 0)
    ELSE IF (i + k) % 2 = 0 THEN Vec2(Half, <<1, 0, 4>>)
    ELSE Vec2(<<-1, 0, 4>>, Half)

\* seeds taken from the hardware whatever cfg.deterministic says
SeedsFromHardware(cfg, hardware) == [i \in 1..cfg.n_particles |-> hardware[i]]

\* the seeds of the constructor: base_seed + i when deterministic, else the
\* hardware seeds drawn
Seeds(cfg, hardware) ==
    [i \in 1..cfg.n_particles |->
        IF cfg.deterministic THEN SeedOf(cfg.base_seed, Index(i - 1)) ELSE hardware[i]]

\* a constructor that records no initial frame
ConstructNoFrame(cfg, hardware, skeleton) ==
    [cfg |-> cfg,
     pos_ |-> [i \in 1..cfg.n_particles |-> VZero],
     step_type_ |-> [i \in 1..cfg.n_particles |-> "Brownian"],
     brownian_params_ |-> [i \in 1..cfg.n_particles |-> cfg.brownian],
     spec_params_ |-> [i \in 1..cfg.n_particles |-> DefaultSpecified],
     rngs_ |-> [i \in 1..cfg.n_particles |-> RNG(Seeds(cfg, hardware)[i])],
     hist_ |-> IF cfg.record_history
               THEN [i \in 1..cfg.n_particles |-> <<>>]
               ELSE <<>>,
     specified_cb_ |-> "none",
     skeleton |-> skeleton, thrown |-> FALSE,
     k |-> 0, pc |-> "idle", runs |-> 0, sets |-> 0, stepped |-> FALSE,
     trail |-> <<[i \in 1..cfg.n_particles |-> VZero]>>]

\* the constructor, in a build with or without PUBLIC_SKELETON: every
\* position at the origin, every particle Brownian with the parameters of
\* the config, one generator per particle, no callback, and when recording
\* one history per particle that holds the initial position
Construct(cfg, hardware, skeleton) ==
    [cfg |-> cfg,
     pos_ |-> [i \in 1..cfg.n_particles |-> VZero],
     step_type_ |-> [i \in 1..cfg.n_particles |-> "Brownian"],
     brownian_params_ |-> [i \in 1..cfg.n_particles |-> cfg.brownian],
     spec_params_ |-> [i \in 1..cfg.n_particles |-> DefaultSpecified],
     rngs_ |-> [i \in 1..cfg.n_particles |-> RNG(Seeds(cfg, hardware)[i])],
     hist_ |-> IF cfg.record_history
               THEN [i \in 1..cfg.n_particles |-> <<VZero>>]
               ELSE <<>>,
     specified_cb_ |-> "none",
     skeleton |-> skeleton, thrown |-> FALSE,
     k |-> 0, pc |-> "idle", runs |-> 0, sets |-> 0, stepped |-> FALSE,
     trail |-> <<[i \in 1..cfg.n_particles |-> VZero]>>]

\* the setters

set_step_type_all(s, type) ==
    [s EXCEPT !.step_type_ = [i \in 1..Len(s.step_type_) |-> type]]

set_step_type(s, i, type) == [s EXCEPT !.step_type_[i] = type]

set_brownian_params(s, i, p) == [s EXCEPT !.brownian_params_[i] = p]

set_specified_params(s, i, p) == [s EXCEPT !.spec_params_[i] = p]

set_specified_params_all(s, p) ==
    [s EXCEPT !.spec_params_ = [i \in 1..Len(s.spec_params_) |-> p]]

set_specified_callback(s, cb) == [s EXCEPT !.specified_cb_ = cb]

\* a set_positions that starts the history whether recording or not
set_positions_recording(s, positions) ==
    [s EXCEPT !.pos_ = positions,
              !.hist_ = [i \in 1..Len(positions) |-> <<positions[i]>>],
              !.trail = <<positions>>]

\* a set_positions that keeps the recorded frames
set_positions_keeping(s, positions) == [s EXCEPT !.pos_ = positions]

\* pos_ = positions and, when recording, the history starts again from them
set_positions(s, positions) ==
    [s EXCEPT !.pos_ = positions,
              !.hist_ = IF s.cfg.record_history
                        THEN [i \in 1..Len(positions) |-> <<positions[i]>>]
                        ELSE @,
              !.trail = <<positions>>]

\* the assertion of set_position: no particle has more than one frame
NotStepped(s) == \A i \in 1..Len(s.hist_) : Len(s.hist_[i]) <= 1

\* a set_position that writes the frame of every particle
set_position_all_frames(s, i, p) ==
    [s EXCEPT !.pos_[i] = p,
              !.hist_ = IF s.cfg.record_history
                        THEN [j \in 1..Len(s.hist_) |-> <<p>> \o Tail(s.hist_[j])]
                        ELSE @,
              !.trail = <<[s.pos_ EXCEPT ![i] = p]>>]

\* pos_[i] = p and, when recording, frame 0 of particle i becomes p (hist_
\* is not empty and hist_[i] is not empty once n_particles > 0)
set_position(s, i, p) ==
    [s EXCEPT !.pos_[i] = p,
              !.hist_ = IF s.cfg.record_history
                        THEN [@ EXCEPT ![i] = <<p>> \o Tail(@)]
                        ELSE @,
              !.trail = <<[s.pos_ EXCEPT ![i] = p]>>]

\* run()

\* frame 0 of run(): hist_ is set up when its size is not n
FrameZero(s) ==
    IF s.cfg.record_history /\ Len(s.hist_) # Len(s.pos_)
    THEN [i \in 1..Len(s.pos_) |-> <<s.pos_[i]>>]
    ELSE s.hist_

\* run() up to the main loop
EnterRun(s) ==
    IF Len(s.pos_) = 0 \/ s.cfg.n_steps = 0
    THEN [s EXCEPT !.runs = @ + 1, !.thrown = FALSE]
    ELSE [s EXCEPT !.runs = @ + 1, !.thrown = FALSE, !.pc = "loop", !.k = 0,
                   !.hist_ = FrameZero(s)]

\* particle i takes the specified step with no callback set
Redacted(s, i) == s.step_type_[i] = "Specified" /\ s.specified_cb_ = "none"

\* specified_step throws in the skeleton build: the first particle, if any,
\* at which this iteration of the main loop throws (0 when none does)
ThrowsAt(s) ==
    IF s.skeleton /\ \E i \in 1..Len(s.pos_) : Redacted(s, i)
    THEN CHOOSE i \in 1..Len(s.pos_) :
             Redacted(s, i) /\ \A j \in 1..(i - 1) : ~Redacted(s, j)
    ELSE 0

\* the switch of the inner loop: the displacement proposed for particle i
Proposed(s, i) ==
    IF s.step_type_[i] = "Brownian" THEN brownian_step(s.brownian_params_[i], s.rngs_[i])
    ELSE IF s.specified_cb_ # "none"
         THEN specified_cb(s.specified_cb_, i - 1, s.k, s.pos_[i])
         ELSE specified_step(s.spec_params_[i], s.k, s.pos_[i], s.rngs_[i])

\* the generator of particle i after its step: both step generators draw
\* twice, the callbacks of the model do not draw
DrawnBy(s, i) ==
    IF s.step_type_[i] = "Specified" /\ s.specified_cb_ # "none" THEN s.rngs_[i]
    ELSE Drawn(s.rngs_[i], 2)

\* an inner loop in which every particle takes the step of the last one
StepAllShared(s, ws, upto) ==
    [i \in 1..Len(s.pos_) |->
        IF upto = 0 \/ i < upto
        THEN AdvanceResult(s.pos_[i], Proposed(s, Len(s.pos_)), ws)
        ELSE s.pos_[i]]

\* the inner loop up to, and without, particle upto (all particles when
\* upto is 0): each takes its step and is advanced with reflections
StepAll(s, ws, upto) ==
    [i \in 1..Len(s.pos_) |->
        IF upto = 0 \/ i < upto
        THEN AdvanceResult(s.pos_[i], Proposed(s, i), ws)
        ELSE s.pos_[i]]

DrawAll(s, upto) ==
    [i \in 1..Len(s.pos_) |-> IF upto = 0 \/ i < upto THEN DrawnBy(s, i) ELSE s.rngs_[i]]

\* a history policy that tests the step index k
RecordAtIndex(k, stride) == k % stride = 0

\* (k+1) % stride == 0
RecordNow(k, stride) == (k + 1) % stride = 0

Recorded(s, pos) ==
    IF s.cfg.record_history /\ RecordNow(s.k, s.cfg.store_every)
    THEN [i \in 1..Len(pos) |-> Append(s.hist_[i], pos[i])]
    ELSE s.hist_

\* iteration k of the main loop, with the new positions pos
AfterStep(s, pos) ==
    [s EXCEPT !.pos_ = pos, !.rngs_ = DrawAll(s, 0),
              !.hist_ = Recorded(s, pos), !.k = @ + 1,
              !.pc = IF s.k + 1 < s.cfg.n_steps THEN "loop" ELSE "idle",
              !.stepped = TRUE, !.trail = Append(@, pos)]

\* iteration k ends in the exception of specified_step: run() is left
Thrown(s, pos, upto) ==
    [s EXCEPT !.pos_ = pos, !.rngs_ = DrawAll(s, upto), !.pc = "idle", !.thrown = TRUE,
              !.stepped = TRUE]

\* one iteration of the main loop
Iteration(s, ws) ==
    IF ThrowsAt(s) = 0 THEN AfterStep(s, StepAll(s, ws, 0))
    ELSE Thrown(s, StepAll(s, ws, ThrowsAt(s)), ThrowsAt(s))

\* the Simulation after set_step_type_all(Specified) and
\* set_specified_callback(cb), as the tests of run() prepare it
WithCallback(s, cb) ==
    set_specified_callback(set_step_type_all(s, "Specified"), cb)

----------------------------------------------------------------------------
(* The simulation specification: a Simulation is constructed on a world,   *)
(* given specified-step particles and a callback, and run() is called on   *)
(* it; one step of the model is one iteration of the main loop of run().   *)

InitSim ==
    /\ ndebug = FALSE
    /\ aborted = FALSE
    /\ \E s \in SimWorlds :
         /\ walls = Build(s, ndebug).walls
         /\ last = LastOf(s)
         /\ ncalls = Len(s)
    /\ calls = <<>>
    /\ steps = <<>>
    /\ refl = NoReflection
    /\ \E cfg \in Configs, cb \in Callbacks :
         sim = WithCallback(Construct(cfg, <<>>, FALSE), cb)

RunBegin ==
    /\ sim.pc = "idle"
    /\ sim.runs < MaxRuns
    /\ sim' = EnterRun(sim)
    /\ UNCHANGED <<walls, calls, ndebug, aborted, last, ncalls, steps, refl>>

RunStep ==
    /\ sim.pc = "loop"
    /\ sim' = Iteration(sim, walls)
    /\ UNCHANGED <<walls, calls, ndebug, aborted, last, ncalls, steps, refl>>

NextSim == RunBegin \/ RunStep

SpecSim == InitSim /\ [][NextSim]_vars

----------------------------------------------------------------------------
(* The interface specification: a Simulation is constructed, in a build    *)
(* with or without NDEBUG and PUBLIC_SKELETON, and its setters and run()   *)
(* are called in any order, with arguments that meet their preconditions.  *)

MaxSets == 2

ApiConfigs ==
    {SimulationConfig(n, m, r, 2) : n \in {0, 2}, m \in {0, 2}, r \in BOOLEAN}

StepTypes == {"Brownian", "Specified"}

\* Brownian parameters with sigma = 1/2 and a drift
DriftBrownian == BrownianParams(One, Rat(1, 8), Half, Zero)

OtherSpecified == SpecifiedStepParams(One, One, One, 2)

\* the positions given to set_position and set_positions
Places == {Vec2(Half, Half), Pt(2, 3)}

\* the vectors of positions of length n given to set_positions
Placements(n) == {[i \in 1..n |-> IF i = 1 THEN p ELSE Vec2(Half, <<1, 0, 4>>)] : p \in Places}

InitApi ==
    /\ ndebug \in BOOLEAN
    /\ aborted = FALSE
    /\ walls = <<>>
    /\ last = NoCall
    /\ ncalls = 0
    /\ calls = <<>>
    /\ steps = <<>>
    /\ refl = NoReflection
    /\ \E cfg \in ApiConfigs, skeleton \in BOOLEAN : sim = Construct(cfg, <<>>, skeleton)

\* no call is under way, the process is alive, and one more setter is called
CanSet == sim.pc = "idle" /\ ~aborted /\ sim.sets < MaxSets

\* the setter has returned s
Set(s) ==
    /\ sim' = [s EXCEPT !.sets = @ + 1]
    /\ UNCHANGED <<walls, calls, ndebug, aborted, last, ncalls, steps, refl>>

SetStepTypeAll ==
    \E type \in StepTypes : CanSet /\ Set(set_step_type_all(sim, type))

SetStepType ==
    \E i \in 1..Len(sim.pos_) :
        CanSet /\ Set(set_step_type(sim, i, "Specified"))

SetBrownianParams ==
    \E i \in 1..Len(sim.pos_) :
        CanSet /\ Set(set_brownian_params(sim, i, DriftBrownian))

SetSpecifiedParams ==
    \E i \in 1..Len(sim.pos_) :
        CanSet /\ Set(set_specified_params(sim, i, OtherSpecified))

SetSpecifiedParamsAll == CanSet /\ Set(set_specified_params_all(sim, OtherSpecified))

SetSpecifiedCallback ==
    \E cb \in {"kStepRight", "none"} : CanSet /\ Set(set_specified_callback(sim, cb))

SetPositionsTo(positions) == CanSet /\ Set(set_positions(sim, positions))

SetPositions == \E positions \in Placements(Len(sim.pos_)) : SetPositionsTo(positions)

\* set_position(i - 1, p): in a debug build the assertion ends the process
\* when the history of some particle has more than one frame
SetPositionAt(i, p) ==
    /\ CanSet
    /\ IF sim.cfg.record_history /\ ~ndebug /\ ~NotStepped(sim)
       THEN /\ aborted' = TRUE
            /\ sim' = [sim EXCEPT !.pos_[i] = p, !.sets = @ + 1]
       ELSE /\ aborted' = FALSE
            /\ sim' = [set_position(sim, i, p) EXCEPT !.sets = @ + 1]
    /\ UNCHANGED <<walls, calls, ndebug, last, ncalls, steps, refl>>

SetPosition == \E i \in 1..Len(sim.pos_), p \in Places : SetPositionAt(i, p)

Run == ~aborted /\ RunBegin

NextApi ==
    \/ SetStepTypeAll
    \/ SetStepType
    \/ SetBrownianParams
    \/ SetSpecifiedParams
    \/ SetSpecifiedParamsAll
    \/ SetSpecifiedCallback
    \/ SetPositions
    \/ SetPosition
    \/ Run
    \/ RunStep

SpecApi == InitApi /\ [][NextApi]_vars

----------------------------------------------------------------------------
(* The seeding specification: the iterations of the RNG setup loop of the  *)
(* deterministic constructor for two particle indices i and j.             *)

\* cfg.base_seed: the default, the test's 123456, and values around the
\* ends of the 32-bit range
BaseSeeds ==
    {U32(0, 0), U32(0, 1), DefaultSeed, U32(1, 57920), U32(32768, 0),
     U32(65535, 65534), U32(65535, 65535), U32(65535, 0)}

\* particle indices: small ones, and ones around 2^16 and 2^32
Indices ==
    {Index(0), Index(1), Index(2), Index(65535), SizeT(0, 0, 1, 0),
     SizeT(0, 0, 65535, 65535), SizeT(0, 1, 0, 0), SizeT(0, 1, 0, 1)}

InitSeed ==
    /\ ndebug = FALSE
    /\ aborted = FALSE
    /\ walls = <<>>
    /\ last = NoCall
    /\ ncalls = 0
    /\ calls = <<>>
    /\ steps = <<>>
    /\ refl = NoReflection
    /\ \E b \in BaseSeeds, i \in Indices, j \in Indices :
         sim = [pc |-> "rng_setup", base_seed |-> b, i |-> i, j |-> j, rngs_ |-> <<>>]

\* rngs_.emplace_back(seed) at the indices i and j
SeedRngs ==
    /\ sim.pc = "rng_setup"
    /\ sim' = [sim EXCEPT !.pc = "seeded",
                          !.rngs_ = <<RNG(SeedOf(sim.base_seed, sim.i)),
                                      RNG(SeedOf(sim.base_seed, sim.j))>>]
    /\ UNCHANGED <<walls, calls, ndebug, aborted, last, ncalls, steps, refl>>

NextSeed == SeedRngs

SpecSeed == InitSeed /\ [][NextSeed]_vars

----------------------------------------------------------------------------
(* The pair specification: two Simulations a and b are constructed from    *)
(* the same world and the same config, as in DeterministicSeedsMatch, and  *)
(* every setter and run() is called on both with the same arguments.       *)
(* Before the first run(), particle 2 of b alone may be given another      *)
(* initial position, step type or parameters.                              *)

MaxPairSets == 2

PairConfigs ==
    {[SimulationConfig(2, 2, r, 1) EXCEPT !.deterministic = d] :
        r \in BOOLEAN, d \in BOOLEAN}

\* the seeds that std::random_device yields for the particles of a and of b
HardwareA == <<U32(0, 1), U32(0, 2)>>

HardwareB == <<U32(0, 1), U32(0, 3)>>

\* the empty world of the test, and a wall on the line x = 1 facing the origin
PairWorlds == {<<>>, <<SegCall(Pt(1, -4), Pt(1, 4), Pt(-1, 0), 7)>>}

InitPair ==
    /\ ndebug = TRUE
    /\ aborted = FALSE
    /\ \E s \in PairWorlds :
         /\ walls = Build(s, ndebug).walls
         /\ last = LastOf(s)
         /\ ncalls = Len(s)
    /\ calls = <<>>
    /\ steps = <<>>
    /\ refl = NoReflection
    /\ \E cfg \in PairConfigs, skeleton \in BOOLEAN :
         sim = [a |-> Construct(cfg, HardwareA, skeleton),
                b |-> Construct(cfg, HardwareB, skeleton),
                perturbed |-> FALSE, failed |-> FALSE, sets |-> 0]

PairIdle == sim.a.pc = "idle" /\ sim.b.pc = "idle"

PairCanSet == PairIdle /\ sim.sets < MaxPairSets

\* the calls have returned a and b
Pair(a, b, perturbed) ==
    /\ sim' = [sim EXCEPT !.a = a, !.b = b, !.sets = @ + 1,
                          !.perturbed = @ \/ perturbed]
    /\ UNCHANGED <<walls, calls, ndebug, aborted, last, ncalls, steps, refl>>

PairSetStepType ==
    \E i \in 1..2 :
        /\ PairCanSet
        /\ Pair(set_step_type(sim.a, i, "Specified"),
                set_step_type(sim.b, i, "Specified"), FALSE)

PairSetParams ==
    \E i \in 1..2 :
        /\ PairCanSet
        /\ \/ Pair(set_brownian_params(sim.a, i, DriftBrownian),
                   set_brownian_params(sim.b, i, DriftBrownian), FALSE)
           \/ Pair(set_specified_params(sim.a, i, OtherSpecified),
                   set_specified_params(sim.b, i, OtherSpecified), FALSE)

PairSetCallback ==
    /\ PairCanSet
    /\ Pair(set_specified_callback(sim.a, "kZigzag"),
            set_specified_callback(sim.b, "kZigzag"), FALSE)

PairSetPosition ==
    \E i \in 1..2 :
        /\ PairCanSet
        /\ ~sim.a.stepped /\ ~sim.b.stepped
        /\ Pair(set_position(sim.a, i, Vec2(Half, Half)),
                set_position(sim.b, i, Vec2(Half, Half)), FALSE)

\* b alone: another initial position, step type or parameters for particle 2
Perturb ==
    /\ PairCanSet
    /\ sim.a.runs = 0
    /\ \/ Pair(sim.a, set_position(sim.b, 2, Vec2(Half, <<1, 0, 4>>)), TRUE)
       \/ Pair(sim.a, set_step_type(sim.b, 2, "Specified"), TRUE)
       \/ Pair(sim.a, set_brownian_params(sim.b, 2, DriftBrownian), TRUE)
       \/ Pair(sim.a, set_specified_params(sim.b, 2, OtherSpecified), TRUE)

PairRun ==
    /\ PairIdle
    /\ sim.a.runs < MaxRuns
    /\ sim' = [sim EXCEPT !.a = EnterRun(sim.a), !.b = EnterRun(sim.b)]
    /\ UNCHANGED <<walls, calls, ndebug, aborted, last, ncalls, steps, refl>>

\* an iteration of the main loop in each object whose run() has not ended
StepOf(s, ws) == IF s.pc = "loop" THEN Iteration(s, ws) ELSE s

PairStepTo(a, b) ==
    /\ sim' = [sim EXCEPT !.a = a, !.b = b, !.failed = @ \/ a.thrown \/ b.thrown]
    /\ UNCHANGED <<walls, calls, ndebug, aborted, last, ncalls, steps, refl>>

PairStep ==
    /\ ~PairIdle
    /\ PairStepTo(StepOf(sim.a, walls), StepOf(sim.b, walls))

NextPair ==
    \/ PairSetStepType
    \/ PairSetParams
    \/ PairSetCallback
    \/ PairSetPosition
    \/ Perturb
    \/ PairRun
    \/ PairStep

SpecPair == InitPair /\ [][NextPair]_vars

----------------------------------------------------------------------------
(* Properties.                                                              *)

Done(c) == calls[c].pc = "done"

InUnitSquare(q) ==
    /\ Le(Zero, q.x) /\ Le(q.x, One)
    /\ Le(Zero, q.y) /\ Le(q.y, One)

UnitBoxWalls == Build(<<UnitBox>>, FALSE).walls

\* C1: in a world holding only add_inward_box(0,1,0,1), a call that starts in
\* [0,1] x [0,1] ends in [0,1] x [0,1], for every displacement.
C1_BoxContainment ==
    walls = UnitBoxWalls =>
        \A c \in Callers :
            (Done(c) /\ InUnitSquare(calls[c].x_in)) => InUnitSquare(calls[c].x)

\* signed distance of q from the line of wall w, positive on the allowed side
Side(w, q) == dot(VSub(q, w.p0), w.n_hat)

OnAllowedSide(q, ws) == \A i \in 1..Len(ws) : Le(Zero, Side(ws[i], q))

Between01(t) == Le(Zero, t) /\ Le(t, One)

MeetsAt(denom, nt, nu) ==
    denom # Zero /\ Between01(Div(nt, denom)) /\ Between01(Div(nu, denom))

\* the straight path x -> x + d has a point in common with wall w
Meets(x, d, w) ==
    MeetsAt(cross2(d, VSub(w.p1, w.p0)),
            cross2(VSub(w.p0, x), VSub(w.p1, w.p0)),
            cross2(VSub(w.p0, x), d))

\* C2: a call that starts on or on the allowed side of every wall ends, up to
\* EPS_POS, on the allowed side of every wall that the path start ->
\* start + displacement meets.
C2_AllowedSide ==
    \A c \in Callers :
        (Done(c) /\ OnAllowedSide(calls[c].x_in, walls)) =>
            \A i \in 1..Len(walls) :
                Meets(calls[c].x_in, calls[c].d_in, walls[i]) =>
                    Le(Neg(EPS_POS), Side(walls[i], calls[c].x))

Negligible(d) == Le(Fabs(d.x), EPS_DIR) /\ Le(Fabs(d.y), EPS_DIR)

Before(ws, i, j) == ws[i].id < ws[j].id \/ (ws[i].id = ws[j].id /\ i <= j)

\* best is wall k (1-based), and no valid wall is earlier than it by more
\* than the tie tolerance, and it comes before every valid wall within the
\* tolerance of it
Chosen(p, v, ws, best, k) ==
    /\ k \in ValidWalls(p, v, ws)
    /\ \A i \in ValidWalls(p, v, ws) :
         /\ Le(best.best_t, Add(Candidate(p, v, ws[i]).t, TIE_TOL))
         /\ Le(Fabs(Sub(Candidate(p, v, ws[i]).t, best.best_t)), TIE_TOL)
              => Before(ws, k, i)

EarliestHit(p, v, ws, best) ==
    IF ValidWalls(p, v, ws) = {} THEN best.best_idx = -1
    ELSE Chosen(p, v, ws, best, best.best_idx + 1)

\* C4: in every iteration the wall the scan chooses is the valid candidate
\* with the smallest t, and among valid candidates within 1e-15 of it the
\* one with the lowest id, then the lowest insertion index.
C4_EarliestHit ==
    \A c \in Callers :
        calls[c].pc = "loop" =>
            EarliestHit(calls[c].p, calls[c].v, walls,
                        Scan(calls[c].p, calls[c].v, walls))

\* the wall sequences that hold the walls of ws in some order
Orders(ws) ==
    {[i \in 1..Len(ws) |-> ws[f[i]]] :
        f \in {g \in [1..Len(ws) -> 1..Len(ws)] :
                  \A i, j \in 1..Len(ws) : g[i] = g[j] => i = j}}

\* C5: when no scan of a call saw two valid candidates within the tie
\* tolerance, the call ends at the same position for every insertion order
\* of the same walls.
C5_OrderIndependent ==
    \A c \in Callers :
        (Done(c) /\ ~calls[c].tied) =>
            \A ws \in Orders(walls) :
                AdvanceResult(calls[c].x_in, calls[c].d_in, ws) = calls[c].x

\* a call that bounced, in a world where two walls were valid candidates of
\* its first scan and no scan saw a tie
C5_Witness ==
    \E c \in Callers :
        /\ Done(c) /\ ~calls[c].tied /\ calls[c].bounces >= 1
        /\ Cardinality(ValidWalls(calls[c].x_in, calls[c].d_in, walls)) >= 2

\* C6: every call ends, after at most MAX_REFLECTIONS scans, and its bounce
\* counter never exceeds MAX_REFLECTIONS.
C6_Termination ==
    /\ [](\A c \in Callers :
            calls[c].bounces <= MAX_REFLECTIONS /\ calls[c].scans <= MAX_REFLECTIONS)
    /\ \A c \in Callers : (calls[c].pc = "ready") ~> Done(c)

\* a call has ended after MAX_REFLECTIONS scans
C6_Witness == \E c \in Callers : Done(c) /\ calls[c].scans = MAX_REFLECTIONS

\* C7: a call whose 64th bounce leaves a displacement above the epsilon has
\* ended, at the 64th contact point plus the nudge; the leftover
\* displacement is not applied and the process is not ended.
C7_CapTruncation ==
    \A c \in Callers :
        (calls[c].bounces = MAX_REFLECTIONS /\ ~NoMotion(calls[c].v)) =>
            /\ Done(c)
            /\ calls[c].x = VAdd(calls[c].contact, VScale(calls[c].hit_n, EPS_POS))
            /\ ~aborted

\* a call has ended at its 64th bounce with displacement left over
C7_Witness ==
    \E c \in Callers :
        /\ Done(c) /\ calls[c].bounces = MAX_REFLECTIONS
        /\ calls[c].scans = MAX_REFLECTIONS
        /\ ~NoMotion(calls[c].v)

\* C8: under every interleaving of the calls' steps each call ends at the
\* position the call gives when run alone on the same world.
C8_ConcurrentAdvances ==
    \A c \in Callers :
        Done(c) => calls[c].x = AdvanceResult(calls[c].x_in, calls[c].d_in, walls)

\* one call has ended after a bounce while another is inside its loop
C8_Witness ==
    \E c1, c2 \in Callers :
        /\ c1 # c2
        /\ Done(c1) /\ calls[c1].bounces >= 1
        /\ calls[c2].pc = "loop" /\ calls[c2].bounces >= 1

\* C9: a step of advance_with_reflections leaves every caller's displacement
\* and the world as they were.
C9_Frame ==
    [][Next =>
          /\ walls' = walls
          /\ \A c \in Callers : calls'[c].d = calls[c].d]_vars

\* a call that moved its caller's position, over a bounce
C9_Witness ==
    \E c \in Callers :
        /\ Done(c) /\ calls[c].bounces >= 1
        /\ calls[c].x # calls[c].x_in
        /\ calls[c].d = calls[c].d_in

\* endpoints that coincide within the tolerance
Coincide(a, b) ==
    Le(Fabs(Sub(b.x, a.x)), EPS_DIR) /\ Le(Fabs(Sub(b.y, a.y)), EPS_DIR)

\* the inputs C10 names as construction errors
Invalid(c) ==
    CASE c.op = "add_segment" -> Coincide(c.a, c.b) \/ Le(norm(c.n), EPS_DIR)
      [] c.op = "add_segment_auto" -> Coincide(c.a, c.b)
      [] c.op = "add_inward_box" -> ~Lt(c.xmin, c.xmax) \/ ~Lt(c.ymin, c.ymax)
      [] c.op = "add_half_plane_strip" -> Le(norm(c.n), EPS_DIR)
      [] OTHER -> FALSE

\* C10: a builder call with degenerate endpoints, a near-zero normal or
\* invalid box bounds fails at that call, and no degenerate wall and no wall
\* with a zero normal is ever stored.
C10_ConstructionErrors ==
    /\ Invalid(last) => aborted
    /\ \A i \in 1..Len(walls) :
         ~Coincide(walls[i].p0, walls[i].p1) /\ walls[i].n_hat # VZero

\* ws2 is ws1 with walls appended
Appended(ws1, ws2) ==
    Len(ws1) <= Len(ws2) /\ SubSeq(ws2, 1, Len(ws1)) = ws1

\* C11: after builder calls that did not fail every wall has a normal of
\* length 1 and endpoints that do not coincide, and each call only appends.
C11_SceneInvariant ==
    [][(NextBuild /\ ~aborted') =>
          /\ Appended(walls, walls')
          /\ \A i \in 1..Len(walls') :
               /\ norm(walls'[i].n_hat) = One
               /\ walls'[i].p0 # walls'[i].p1]_vars

\* the four walls C12 names for the rectangle [xmin,xmax] x [ymin,ymax]
BoxWalls(xmin, xmax, ymin, ymax, base_id) ==
    << [p0 |-> Vec2(xmin, ymin), p1 |-> Vec2(xmax, ymin),
        n_hat |-> Pt(0, 1), id |-> base_id],
       [p0 |-> Vec2(xmax, ymin), p1 |-> Vec2(xmax, ymax),
        n_hat |-> Pt(-1, 0), id |-> base_id + 1],
       [p0 |-> Vec2(xmax, ymax), p1 |-> Vec2(xmin, ymax),
        n_hat |-> Pt(0, -1), id |-> base_id + 2],
       [p0 |-> Vec2(xmin, ymax), p1 |-> Vec2(xmin, ymin),
        n_hat |-> Pt(1, 0), id |-> base_id + 3] >>

\* the call just made appended the four walls of its box, and returned
BoxAppended ==
    /\ ~aborted'
    /\ walls' = walls \o BoxWalls(last'.xmin, last'.xmax, last'.ymin, last'.ymax, last'.id)

\* C12: add_inward_box with xmin < xmax and ymin < ymax appends exactly the
\* four walls bottom, right, top, left with normals (0,1), (-1,0), (0,-1),
\* (1,0) and ids base_id .. base_id+3.
C12_BoxBuilder ==
    [][(AddInwardBox /\ Lt(last'.xmin, last'.xmax) /\ Lt(last'.ymin, last'.ymax))
          => BoxAppended]_vars

\* add_segment(a, b, n) with the valid normal n = (0,1) fails
ExplicitFails(a, b) == ~add_segment(<<>>, a, b, Pt(0, 1), 0, ndebug).ok

\* add_segment_auto(a, b) fails
AutoFails(a, b) == ~add_segment_auto(<<>>, a, b, FALSE, 0, ndebug).ok

\* C13: for the endpoints of the segment call just made, add_segment_auto
\* fails as degenerate if and only if add_segment with a valid normal does.
C13_AutoErrorsAsExplicit ==
    last.op \in {"add_segment", "add_segment_auto"} =>
        (AutoFails(last.a, last.b) <=> ExplicitFails(last.a, last.b))

\* the left-hand tangent (-n.y, n.x)
Tangent(n) == Vec2(Neg(n.y), n.x)

\* wall w is the strip C14 names for the call c: normal c.n normalized,
\* midpoint c.c * n_hat, direction and length span * (-n_hat.y, n_hat.x),
\* both endpoints on the line n_hat . x = c.c
IsStrip(w, c) ==
    /\ norm(w.n_hat) = One
    /\ VScale(w.n_hat, norm(c.n)) = c.n
    /\ VAdd(w.p0, w.p1) = VScale(w.n_hat, Mul(Two, c.c))
    /\ VSub(w.p1, w.p0) = VScale(Tangent(w.n_hat), c.span)
    /\ Lt(Zero, c.span)
    /\ w.id = c.id
    /\ dot(w.n_hat, w.p0) = c.c /\ dot(w.n_hat, w.p1) = c.c

\* the call just made returned and appended exactly its strip
StripAppended ==
    /\ ~aborted'
    /\ Len(walls') = Len(walls) + 1
    /\ Appended(walls, walls')
    /\ IsStrip(walls'[Len(walls')], last')

\* C14: add_half_plane_strip(n, c, span, id) with a non-zero n appends
\* exactly one wall, with normal n normalized, midpoint c*n_hat, direction
\* (-n_hat.y, n_hat.x), length span and id id.
C14_HalfPlaneStrip ==
    [][(AddHalfPlaneStrip /\ last'.n # VZero) => StripAppended]_vars

\* the segment of length span along the unit tangent of n has a component
\* longer than EPS_DIR
LongEnough(n, span) ==
    \/ Lt(EPS_DIR, Fabs(Mul(span, normalize(n).x)))
    \/ Lt(EPS_DIR, Fabs(Mul(span, normalize(n).y)))

\* C14 as the code has it: the same when the norm of n exceeds EPS_DIR,
\* span is positive and the segment has a component longer than EPS_DIR.
C14_HalfPlaneStripAmended ==
    [][(AddHalfPlaneStrip /\ Lt(EPS_DIR, norm(last'.n)) /\ Lt(Zero, last'.span)
           /\ LongEnough(last'.n, last'.span))
          => StripAppended]_vars

\* the strip of the line 0.6 x + 0.8 y = 5 has been added from the normal
\* (3, 4)
C14_Witness ==
    /\ last.op = "add_half_plane_strip" /\ ~aborted
    /\ last.n = Pt(3, 4) /\ last.c = FromInt(5)
    /\ walls[Len(walls)].n_hat = Vec2(Rat(3, 5), Rat(4, 5))
    /\ walls[Len(walls)].p0 = Pt(7, 1) /\ walls[Len(walls)].p1 = Pt(-1, 7)

FloorWalls == Build(<<Floor>>, FALSE).walls

\* a and b differ by at most EPS_POS
Near(a, b) == Le(Fabs(Sub(a, b)), EPS_POS)

\* the straight path from x by d starts above y = 0, ends below it and
\* crosses y = 0 at an abscissa in [-10, 10]
CrossesFloor(x, d) ==
    /\ Lt(Zero, x.y)
    /\ Lt(Add(x.y, d.y), Zero)
    /\ Le(Fabs(Add(x.x, Mul(d.x, Div(x.y, Neg(d.y))))), FromInt(10))

\* C15: with the one floor wall on y = 0, a call whose path crosses the
\* floor from above ends at the mirror image (x0 + dx, -(y0 + dy)) of the
\* unobstructed endpoint, up to EPS_POS.
C15_SingleWallReflection ==
    walls = FloorWalls =>
        \A c \in Callers :
            (Done(c) /\ CrossesFloor(calls[c].x_in, calls[c].d_in)) =>
                /\ Near(calls[c].x.x, Add(calls[c].x_in.x, calls[c].d_in.x))
                /\ Near(calls[c].x.y, Neg(Add(calls[c].x_in.y, calls[c].d_in.y)))

\* q lies on the segment of wall w
OnWall(q, w) ==
    /\ Side(w, q) = Zero
    /\ Le(Zero, dot(VSub(q, w.p0), VSub(w.p1, w.p0)))
    /\ Le(dot(VSub(q, w.p0), VSub(w.p1, w.p0)), dot(VSub(w.p1, w.p0), VSub(w.p1, w.p0)))

Within01(t) == Le(Neg(EPS_POS), t) /\ Le(t, Add(One, EPS_POS))

ReachesAt(denom, nt, nu) ==
    denom # Zero /\ Within01(Div(nt, denom)) /\ Within01(Div(nu, denom))

\* the straight path x -> x + d comes within EPS_POS of a point of wall w
Reaches(x, d, w) ==
    ReachesAt(cross2(d, VSub(w.p1, w.p0)),
              cross2(VSub(w.p0, x), VSub(w.p1, w.p0)),
              cross2(VSub(w.p0, x), d))

\* the call starts on wall i, moves to the allowed side of every wall it
\* starts on, and its straight path reaches no other wall
LeavesWall(x, d, ws, i) ==
    /\ OnWall(x, ws[i])
    /\ \A j \in 1..Len(ws) :
           IF OnWall(x, ws[j]) THEN Lt(Zero, dot(d, ws[j].n_hat))
           ELSE ~Reaches(x, d, ws[j])

Grazes(d, w) == Le(Fabs(dot(d, w.n_hat)), EPS_DIR)

\* the displacement grazes some wall and its straight path reaches no wall
GrazingMiss(x, d, ws) ==
    /\ \E i \in 1..Len(ws) : Grazes(d, ws[i])
    /\ \A i \in 1..Len(ws) : ~Reaches(x, d, ws[i])

\* every wall has |cross(d, s)| <= EPS_DIR
AllNearParallel(d, ws) ==
    \A i \in 1..Len(ws) : Le(Fabs(cross2(d, VSub(ws[i].p1, ws[i].p0))), EPS_DIR)

C18_ReflectionInvolution ==
    (norm(refl.n_hat) = One /\ refl.applied % 2 = 0) => refl.r = refl.v

\* a vector with a normal component has been reflected twice
C18_Witness ==
    /\ refl.applied = 2
    /\ norm(refl.n_hat) = One
    /\ dot(refl.v, refl.n_hat) # Zero
    /\ refl.r = refl.v

\* the unit tangent (-n.y, n.x)
TangentOf(n) == Vec2(Neg(n.y), n.x)

\* C19: the reflection r of v across the unit normal n has r . n = -(v . n),
\* the same component along the tangent (-n.y, n.x), and the same norm.
C19_SpecularLaw ==
    (norm(refl.n_hat) = One /\ refl.applied = 1) =>
        /\ dot(refl.r, refl.n_hat) = Neg(dot(refl.v, refl.n_hat))
        /\ dot(refl.r, TangentOf(refl.n_hat)) = dot(refl.v, TangentOf(refl.n_hat))
        /\ dot(refl.r, refl.r) = dot(refl.v, refl.v)

\* (2, 5) has been reflected across (0.6, 0.8): normal component 5.2,
\* tangential component 1.4
C19_Witness ==
    /\ refl.applied = 1
    /\ refl.v = Pt(2, 5)
    /\ refl.n_hat = Vec2(<<3, 0, 5>>, <<4, 0, 5>>)
    /\ dot(refl.r, refl.n_hat) = <<-26, 0, 5>>
    /\ dot(refl.r, TangentOf(refl.n_hat)) = <<7, 0, 5>>

\* the number of frames after n_steps steps with stride store_every
Frames(cfg) == 1 + (cfg.n_steps \div cfg.store_every)

\* the first run() of the Simulation has returned
FirstRunDone == sim.pc = "idle" /\ sim.runs = 1

HitStep(p, v, n, t, next) ==
    /\ next.p = VAdd(VAdd(p, VScale(v, t)), VScale(n, EPS_POS))
    /\ next.v = reflect_across_unit_normal(VScale(v, Sub(One, t)), n)
    /\ next.hit_n = n

\* the walls that the scan of this iteration can select
Selectable(call, ws) == ValidWalls(call.p, call.v, ws)

\* C27: an iteration that selects a wall with normal n_hat at parameter t
\* sets the position to p + t*v + EPS_POS*n_hat and the remaining
\* displacement to the reflection of (1 - t)*v across n_hat, adds exactly
\* one bounce, and ends the loop when both components of the new remaining
\* displacement are at most EPS_DIR in magnitude.
C27_HitStep ==
    [][\A c \in Callers :
          (Iterate(c) /\ Selectable(calls[c], walls) # {}) =>
              /\ calls'[c].bounces = calls[c].bounces + 1
              /\ \E i \in Selectable(calls[c], walls) :
                     HitStep(calls[c].p, calls[c].v, walls[i].n_hat,
                             Candidate(calls[c].p, calls[c].v, walls[i]).t, calls'[c])
              /\ Negligible(calls'[c].v) => calls'[c].pc = "done"]_vars

\* a first bounce has left the position nudged off the contact point, with
\* displacement left to travel
C27_Witness ==
    \E c \in Callers :
        /\ calls[c].pc = "loop" /\ calls[c].bounces = 1
        /\ calls[c].hit_n # VZero
        /\ calls[c].p = VAdd(calls[c].contact, VScale(calls[c].hit_n, EPS_POS))
        /\ ~Negligible(calls[c].v)

\* C28: a builder call that fails leaves the wall sequence as it was.
C28_FailedCallsAtomic ==
    [][(NextBuild /\ aborted') => walls' = walls]_vars

\* C29: after any number of consecutive run() calls, frame j (j >= 1) of
\* every particle's history is its position after j * store_every steps
\* counted from frame 0.
C29_UniformDecimation ==
    (sim.pc = "idle" /\ sim.cfg.record_history) =>
        \A i \in 1..sim.cfg.n_particles :
            \A j \in 1..(Len(sim.hist_[i]) - 1) :
                /\ j * sim.cfg.store_every + 1 <= Len(sim.trail)
                /\ sim.hist_[i][j + 1] = sim.trail[j * sim.cfg.store_every + 1][i]

\* C21: with record_history false, history() is empty after construction
\* and after every setter and run() call.
C21_HistoryDisabled == ~sim.cfg.record_history => sim.hist_ = <<>>

\* a Simulation that does not record has been given positions and has run
C21_Witness ==
    /\ ~sim.cfg.record_history
    /\ sim.pc = "idle" /\ sim.runs >= 1 /\ sim.sets >= 1 /\ sim.k = 2
    /\ Len(sim.pos_) = 2
    /\ sim.trail[1][1] \in Places
    /\ sim.hist_ = <<>>

\* no call has been made on the Simulation since its construction
Fresh == sim.runs = 0 /\ sim.sets = 0

\* C22: positions() has n_particles entries, history() has n_particles
\* entries when recording and none otherwise, and when recording every
\* history holds at least frame 0, which right after construction is (0,0).
C22_SizeInvariant ==
    /\ Len(sim.pos_) = sim.cfg.n_particles
    /\ Len(sim.hist_) = IF sim.cfg.record_history THEN sim.cfg.n_particles ELSE 0
    /\ sim.cfg.record_history =>
          \A i \in 1..sim.cfg.n_particles :
              /\ Len(sim.hist_[i]) >= 1
              /\ Fresh => sim.hist_[i] = <<VZero>>

\* a recording Simulation of two particles, after a setter call and a run()
\* that recorded a frame
C22_Witness ==
    /\ sim.cfg.record_history /\ sim.cfg.n_particles = 2
    /\ sim.pc = "idle" /\ sim.runs >= 1 /\ sim.sets >= 1
    /\ Len(sim.pos_) = 2 /\ Len(sim.hist_) = 2
    /\ Len(sim.hist_[2]) = 2

\* C23: set_positions(P), before or after run(), makes positions() equal to
\* P and, when recording, leaves every history with the one frame P[i].
C23_SetPositionsResets ==
    [][\A P \in Placements(Len(sim.pos_)) :
          SetPositionsTo(P) =>
              /\ sim'.pos_ = P
              /\ sim.cfg.record_history =>
                    /\ Len(sim'.hist_) = Len(P)
                    /\ \A i \in 1..Len(P) : sim'.hist_[i] = <<P[i]>>]_vars

\* set_positions was called after a run() that had recorded a frame
C23_Witness ==
    /\ sim.cfg.record_history /\ sim.cfg.n_particles = 2
    /\ sim.pc = "idle" /\ sim.runs = 1 /\ sim.k = 2 /\ ~sim.thrown
    /\ sim.pos_[1] \in Places
    /\ \A i \in 1..2 : sim.hist_[i] = <<sim.pos_[i]>>

\* C24: before any step has run, set_position(i, p) sets the position of
\* particle i to p and, when recording, makes p the one frame of its
\* history; the position and history of every other particle are unchanged.
C24_SetPositionBeforeStepping ==
    [][\A i \in 1..Len(sim.pos_) : \A p \in Places :
          (SetPositionAt(i, p) /\ ~sim.stepped) =>
              /\ ~aborted'
              /\ sim'.pos_[i] = p
              /\ sim.cfg.record_history => sim'.hist_[i] = <<p>>
              /\ \A j \in 1..Len(sim.pos_) :
                    j # i =>
                        /\ sim'.pos_[j] = sim.pos_[j]
                        /\ sim.cfg.record_history => sim'.hist_[j] = sim.hist_[j]]_vars

\* the one call made on a recording Simulation was set_position on its
\* second particle
C24_Witness ==
    /\ sim.cfg.record_history /\ sim.cfg.n_particles = 2
    /\ sim.sets = 1 /\ sim.runs = 0 /\ ~sim.stepped
    /\ sim.pos_[2] \in Places /\ sim.hist_[2] = <<sim.pos_[2]>>
    /\ sim.pos_[1] = VZero /\ sim.hist_[1] = <<VZero>>

\* the limbs, least significant first, of base + i computed without any
\* wraparound, with the carry c into the limb at position n
RECURSIVE WideSum(_, _, _, _)
WideSum(b, i, n, c) ==
    IF n > 4 THEN <<c>>
    ELSE <<(b[n] + i[n] + c) % Limb>> \o WideSum(b, i, n + 1, (b[n] + i[n] + c) \div Limb)

\* (base_seed + i) mod 2^32 as an unsigned 32-bit value
SumMod32(base, i) ==
    U32(WideSum(<<base[2], base[1], 0, 0>>, <<i[4], i[3], i[2], i[1]>>, 1, 0)[2],
        WideSum(<<base[2], base[1], 0, 0>>, <<i[4], i[3], i[2], i[1]>>, 1, 0)[1])

\* the upper and the lower 32 bits of an index
Upper(i) == i[1] * Limb + i[2]

LowerLess(i, j) == i[3] < j[3] \/ (i[3] = j[3] /\ i[4] < j[4])

\* i < j and j - i < 2^32
CloseBelow(i, j) ==
    \/ Upper(i) = Upper(j) /\ LowerLess(i, j)
    \/ Upper(i) + 1 = Upper(j) /\ LowerLess(j, i)

\* C26: the generator of particle i is seeded with (base_seed + i) mod
\* 2^32, and two indices that differ by less than 2^32 get different seeds.
C26_PerParticleSeeds ==
    sim.pc = "seeded" =>
        /\ sim.rngs_[1].seed = SumMod32(sim.base_seed, sim.i)
        /\ sim.rngs_[2].seed = SumMod32(sim.base_seed, sim.j)
        /\ (CloseBelow(sim.i, sim.j) \/ CloseBelow(sim.j, sim.i)) =>
              sim.rngs_[1].seed # sim.rngs_[2].seed

\* base_seed 2^32 - 1 and the indices 1 and 2^32 - 1: the sums wrap to 0
\* and to 2^32 - 2
C26_Witness ==
    /\ sim.pc = "seeded"
    /\ sim.base_seed = U32(65535, 65535)
    /\ sim.i = Index(1) /\ sim.j = SizeT(0, 0, 65535, 65535)
    /\ sim.rngs_[1].seed = U32(0, 0)
    /\ sim.rngs_[2].seed = U32(65535, 65534)

\* C25: two Simulations built from the same world and the same config with
\* deterministic = true, given the same calls, have equal positions() and
\* equal history() after every call.
C25_ReproducibleRuns ==
    (sim.a.cfg.deterministic /\ ~sim.perturbed) =>
        /\ sim.a.pos_ = sim.b.pos_
        /\ sim.a.hist_ = sim.b.hist_

\* both have run Brownian steps to the end and recorded them
C25_Witness ==
    /\ sim.a.cfg.deterministic /\ ~sim.perturbed /\ PairIdle
    /\ sim.a.runs = 2 /\ sim.a.stepped /\ ~sim.failed
    /\ sim.a.cfg.record_history /\ Len(sim.a.hist_[1]) = 5
    /\ sim.a.step_type_[1] = "Brownian"
    /\ sim.a.rngs_[1].draws = 8 /\ sim.a.rngs_[1] = sim.b.rngs_[1]
    /\ sim.a.pos_[1] # VZero /\ sim.a.pos_[1] # sim.a.pos_[2]
    /\ sim.a.pos_ = sim.b.pos_

\* particle 1 has the same seed, position and history in a and in b
SameFirst ==
    sim.a.rngs_[1].seed = sim.b.rngs_[1].seed =>
        /\ sim.a.pos_[1] = sim.b.pos_[1]
        /\ sim.a.cfg.record_history => sim.a.hist_[1] = sim.b.hist_[1]

====
